---- MODULE Spec2Model ----
(***************************************************************************)
(* Model of bendy's encode side: the Encodable trait with its builtin      *)
(* impls (src/encoding/encodable.rs) driven by the streaming Encoder.      *)
(*                                                                         *)
(* Bytes are modelled as integers 0..255, byte strings as sequences of     *)
(* them, so that the wire format is produced by concatenation exactly as   *)
(* the encoder writes it.                                                  *)
(***************************************************************************)
EXTENDS Integers, Sequences, FiniteSets, TLC

\* ------------------------------------------------------------------ bounds

\* An input value has at most MaxNodes nodes (leaves, wrappers, containers).
MaxNodes == 3
\* Ceilings 0..MaxCeiling are tried through with_max_depth.
MaxCeiling == 2

\* ------------------------------------------------------------ byte strings

\* Ord for [u8]: lexicographic comparison of the bytes, a proper prefix first.
RECURSIVE LexLess(_, _)
LexLess(a, b) ==
    IF b = <<>> THEN FALSE
    ELSE IF a = <<>> THEN TRUE
    ELSE IF Head(a) # Head(b) THEN Head(a) < Head(b)
    ELSE LexLess(Tail(a), Tail(b))

LexLeq(a, b) == a = b \/ LexLess(a, b)

\* Decimal digits of a natural number, most significant first, no leading zero.
RECURSIVE Digits(_)
Digits(n) ==
    IF n < 10 THEN <<48 + n>>
    ELSE Digits(n \div 10) \o <<48 + (n % 10)>>

\* <length>:<raw bytes>
ByteStringToken(b) == Digits(Len(b)) \o <<58>> \o b

\* i<decimal digits>e, with a leading '-' for a negative value.
IntegerToken(n) ==
    <<105>> \o (IF n < 0 THEN <<45>> \o Digits(0 - n) ELSE Digits(n)) \o <<101>>

\* ------------------------------------------------------------------ values

\* A map key of a generic key type K: `bytes` is what k.as_ref() returns; `id`
\* is the part of the key that as_ref() does not show.  K's own Eq/Hash/Ord
\* are the derived ones over (id, bytes).  String and Vec<u8> keys have id 0.
NoKey == [id |-> 0, bytes |-> <<>>]

as_ref(k) == k.bytes

KeyLess(a, b) ==
    \/ a.id < b.id
    \/ a.id = b.id /\ LexLess(a.bytes, b.bytes)

\* Every value is one record shape; a field a kind does not use is empty.
Leaf(t, n, b) == [t |-> t, n |-> n, b |-> b, kids |-> <<>>]
Node(t, kids) == [t |-> t, n |-> 0, b |-> <<>>, kids |-> kids]
Unit == Leaf("unit", 0, <<>>)

Forwarding == {"ref", "box", "rc", "arc"}
Iterable == {"vec", "vecdeque", "linkedlist"}
LeafTypes == {"str", "int", "asstring"}
Unary == Forwarding \cup Iterable \cup {"slice", "btree", "hash"}

TEXTS == {<<97>>, <<97, 98>>}
INTS == {0, 113, 0 - 12}
BYTESTRS == {<<>>, <<113, 117, 120>>, <<0, 1, 2, 3, 4, 5, 6, 7, 8, 255>>}
KEYS == {[id |-> i, bytes |-> b] : i \in {0, 1}, b \in {<<97>>, <<97, 98>>, <<98>>}}

RECURSIVE Size(_)
RECURSIVE SizeOfKids(_)
Size(v) == 1 + SizeOfKids(v.kids)
SizeOfKids(kids) ==
    IF kids = <<>> THEN 0 ELSE Size(Head(kids).v) + SizeOfKids(Tail(kids))

\* A type is the path of its constructors, outermost first: Vec<Box<String>>
\* is <<"vec", "box", "str">>.  TYPES holds every builtin constructor over
\* every leaf, and a selection of deeper nestings.
TYPES ==
    {<<l>> : l \in LeafTypes}
    \cup {<<u, l>> : u \in Unary, l \in LeafTypes}
    \cup { <<"vec", "vec", "str">>, <<"vec", "hash", "int">>,
           <<"btree", "vec", "int">>, <<"hash", "btree", "str">>,
           <<"hash", "hash", "asstring">>, <<"box", "vec", "rc", "int">>,
           <<"slice", "linkedlist", "asstring">>, <<"arc", "btree", "ref", "str">>,
           <<"vecdeque", "box", "vec", "str">>, <<"vec", "vec", "vec", "int">> }

RECURSIVE Instances(_, _)
RECURSIVE ListKids(_, _)
RECURSIVE MapKids(_, _, _)
\* The values of type T that have at most n nodes.
Instances(T, n) ==
    IF n < 1 THEN {}
    ELSE CASE T[1] = "str" -> {Leaf("str", 0, b) : b \in TEXTS}
           [] T[1] = "int" -> {Leaf("int", i, <<>>) : i \in INTS}
           [] T[1] = "asstring" -> {Leaf("asstring", 0, b) : b \in BYTESTRS}
           [] T[1] \in Forwarding ->
                {Node(T[1], <<[k |-> NoKey, v |-> x]>>) : x \in Instances(Tail(T), n - 1)}
           [] T[1] \in Iterable \cup {"slice"} ->
                {Node(T[1], s) : s \in ListKids(Tail(T), n - 1)}
           [] T[1] \in {"btree", "hash"} ->
                {Node(T[1], s) : s \in MapKids(Tail(T), n - 1, KEYS)}

ListKids(T, n) ==
    {<<>>} \cup
    UNION {{<<[k |-> NoKey, v |-> x]>> \o rest : rest \in ListKids(T, n - Size(x))}
           : x \in Instances(T, n)}

\* Entries of a map, kept in K's own order (the order a BTreeMap iterates in;
\* for a HashMap it only names the set of entries).
MapKids(T, n, keys) ==
    {<<>>} \cup
    UNION {{<<[k |-> key, v |-> x]>> \o rest
             : rest \in MapKids(T, n - Size(x), {k2 \in keys : KeyLess(key, k2)})}
           : key \in keys, x \in Instances(T, n)}

\* The record of the unit test (struct Foo) and the instance it encodes.
FooValue ==
    Node("Foo",
         << [k |-> [id |-> 0, bytes |-> <<98, 97, 114>>], v |-> Leaf("int", 5, <<>>)],
            [k |-> [id |-> 0, bytes |-> <<98, 97, 122>>],
             v |-> Node("vec", << [k |-> NoKey, v |-> Leaf("str", 0, <<102, 111, 111>>)],
                                  [k |-> NoKey, v |-> Leaf("str", 0, <<98, 97, 114>>)] >>)],
            [k |-> [id |-> 0, bytes |-> <<113, 117, 120>>],
             v |-> Node("vec", << [k |-> NoKey, v |-> Leaf("int", 113, <<>>)],
                                  [k |-> NoKey, v |-> Leaf("int", 117, <<>>)],
                                  [k |-> NoKey, v |-> Leaf("int", 120, <<>>)] >>)] >>)

\* The inputs: a type and one of its values.
INPUTS ==
    UNION {{<<T, v>> : v \in Instances(T, MaxNodes)} : T \in TYPES}
    \cup {<< <<"Foo">>, FooValue >>}

\* -------------------------------------------------------------- MAX_DEPTH

\* const MAX_DEPTH of each impl.
MAX_DEPTH_str == 0
MAX_DEPTH_integer == 1
MAX_DEPTH_AsString == 1
MAX_DEPTH_Foo == 2
MAX_DEPTH_forward(inner) == inner
\* Faulty variant: the list level itself is not counted.
MAX_DEPTH_iterable_flat(inner) == inner
MAX_DEPTH_iterable(inner) == inner + 1
MAX_DEPTH_slice(inner) == inner + 1
MAX_DEPTH_BTreeMap(inner) == inner + 1
MAX_DEPTH_HashMap(inner) == inner + 1

\* <T as Encodable>::MAX_DEPTH
RECURSIVE MAX_DEPTH(_)
MAX_DEPTH(T) ==
    CASE T[1] = "str" -> MAX_DEPTH_str
      [] T[1] = "int" -> MAX_DEPTH_integer
      [] T[1] = "asstring" -> MAX_DEPTH_AsString
      [] T[1] = "Foo" -> MAX_DEPTH_Foo
      [] T[1] \in Forwarding -> MAX_DEPTH_forward(MAX_DEPTH(Tail(T)))
      [] T[1] \in Iterable -> MAX_DEPTH_iterable(MAX_DEPTH(Tail(T)))
      [] T[1] = "slice" -> MAX_DEPTH_slice(MAX_DEPTH(Tail(T)))
      [] T[1] = "btree" -> MAX_DEPTH_BTreeMap(MAX_DEPTH(Tail(T)))
      [] T[1] = "hash" -> MAX_DEPTH_HashMap(MAX_DEPTH(Tail(T)))

\* ----------------------------------------------------------------- encode

\* What a body passes to the encoder: e.emit(value) or e.emit_pair(key, value);
\* "close" is the encoder's own end of a list or dict body.
emit(v) == [op |-> "emit", k |-> <<>>, v |-> v]
emit_pair(k, v) == [op |-> "emit_pair", k |-> k, v |-> v]
close == [op |-> "close", k |-> <<>>, v |-> Unit]

\* One call on the SingleItemEncoder, with the body a structured call runs.
Call(name, n, b, body) == [call |-> name, n |-> n, b |-> b, body |-> body]

\* The orders a HashMap of len entries may iterate in.
Orders(len) ==
    {p \in [1..len -> 1..len] : \A i, j \in 1..len : p[i] = p[j] => i = j}

\* slice::sort_by_key is stable: an element goes after the elements that are
\* before it in the input and whose key is less than or equal to its key.
RECURSIVE SortInsert(_, _)
SortInsert(s, x) ==
    IF s = <<>> THEN <<x>>
    ELSE IF LexLeq(s[Len(s)].k, x.k) THEN Append(s, x)
    ELSE Append(SortInsert(SubSeq(s, 1, Len(s) - 1), x), s[Len(s)])

RECURSIVE sort_by_key(_)
sort_by_key(s) ==
    IF s = <<>> THEN <<>>
    ELSE SortInsert(sort_by_key(SubSeq(s, 1, Len(s) - 1)), s[Len(s)])

\* impl Encodable for &str / String
encode_str(v) == Call("emit_str", 0, v.b, <<>>)

\* impl_encodable_integer!
encode_integer(v) == Call("emit_int", v.n, <<>>, <<>>)

\* impl_encodable_iterable!(Vec VecDeque LinkedList)
encode_iterable(v) ==
    Call("emit_list", 0, <<>>, [i \in 1..Len(v.kids) |-> emit(v.kids[i].v)])

\* impl Encodable for &[ContentT]
encode_slice(v) ==
    Call("emit_list", 0, <<>>, [i \in 1..Len(v.kids) |-> emit(v.kids[i].v)])

\* The pairs a BTreeMap's encode emits, in emission order.
BTreeMap_pairs(v) ==
    [i \in 1..Len(v.kids) |-> emit_pair(as_ref(v.kids[i].k), v.kids[i].v)]

\* impl Encodable for BTreeMap<K, V>
encode_BTreeMap(v) == Call("emit_dict", 0, <<>>, BTreeMap_pairs(v))

\* The pairs a HashMap's encode emits, in emission order; iter is the order
\* self.iter() happens to yield the entries in.
HashMap_pairs(v, iter) ==
    sort_by_key([i \in 1..Len(v.kids) |->
                    emit_pair(as_ref(v.kids[iter[i]].k), v.kids[iter[i]].v)])

\* impl Encodable for HashMap<K, V, S>
encode_HashMap(v, iter) == Call("emit_dict", 0, <<>>, HashMap_pairs(v, iter))

\* Faulty variant: the wrapper hands the buffer to the sequence impl, which
\* emits it as a list of integers.
encode_AsString_as_list(v) ==
    Call("emit_list", 0, <<>>, [i \in 1..Len(v.b) |-> emit(Leaf("int", v.b[i], <<>>))])

\* impl Encodable for AsString<I>
encode_AsString(v) == Call("emit_bytes", 0, v.b, <<>>)

\* test::Foo: the qux field, a Vec<u8>, as the bytes AsString(&self.qux) views.
Foo_qux(v) == [i \in 1..Len(v.kids[3].v.kids) |-> v.kids[3].v.kids[i].v.n]

\* Faulty variant: qux is emitted without the AsString wrapper.
encode_Foo_unwrapped(v) ==
    Call("emit_dict", 0, <<>>,
         << emit_pair(<<98, 97, 114>>, v.kids[1].v),
            emit_pair(<<98, 97, 122>>, v.kids[2].v),
            emit_pair(<<113, 117, 120>>, v.kids[3].v) >>)

\* impl Encodable for Foo (mod test)
encode_Foo(v) ==
    Call("emit_dict", 0, <<>>,
         << emit_pair(<<98, 97, 114>>, v.kids[1].v),
            emit_pair(<<98, 97, 122>>, v.kids[2].v),
            emit_pair(<<113, 117, 120>>, Leaf("asstring", 0, Foo_qux(v))) >>)

\* The value a chain of &, Box, Rc, Arc forwards to.
RECURSIVE Forwarded(_)
Forwarded(v) == IF v.t \in Forwarding THEN Forwarded(v.kids[1].v) ELSE v

\* Encodable::encode, dispatched on the value's type.
encode(v, iter) ==
    LET w == Forwarded(v) IN
    CASE w.t = "str" -> encode_str(w)
      [] w.t = "int" -> encode_integer(w)
      [] w.t = "asstring" -> encode_AsString(w)
      [] w.t \in Iterable -> encode_iterable(w)
      [] w.t = "slice" -> encode_slice(w)
      [] w.t = "btree" -> encode_BTreeMap(w)
      [] w.t = "hash" -> encode_HashMap(w, iter)
      [] w.t = "Foo" -> encode_Foo(w)

IterOrders(v) ==
    LET w == Forwarded(v) IN
    IF w.t = "hash" THEN Orders(Len(w.kids)) ELSE {<<>>}

\* ---------------------------------------------------------------- Encoder

VARIABLES
    ty,         \* the type of the value being encoded
    value,      \* the value being encoded
    state,      \* the Encoder: "Empty", "Emitting" or "Finalized"
    max_depth,  \* the Encoder's configured depth ceiling
    depth,      \* the Encoder's depth counter
    output,     \* the Encoder's output buffer
    error,      \* the failure the running emission ended with, or "none"
    pending,    \* what the running top-level emission has still to do
    caller,     \* who owns the Encoder: "driver" (the application) or "to_bytes"
    ret,        \* what the last call returned to the application
    outputs     \* every byte string returned so far as the encoding of value

vars == <<ty, value, state, max_depth, depth, output, error, pending, caller, ret, outputs>>

\* The ceiling of Encoder::new().
DEFAULT_MAX_DEPTH == 2048

Ok(name, bytes) == [call |-> name, ok |-> TRUE, bytes |-> bytes, err |-> "none"]
Err(name, e) == [call |-> name, ok |-> FALSE, bytes |-> <<>>, err |-> e]
Running(name) == [call |-> name, ok |-> FALSE, bytes |-> <<>>, err |-> "running"]

Init ==
    /\ \E in \in INPUTS : ty = in[1] /\ value = in[2]
    /\ state = "Empty"
    /\ max_depth = DEFAULT_MAX_DEPTH
    /\ depth = 0
    /\ output = <<>>
    /\ error = "none"
    /\ pending = <<>>
    /\ caller = "driver"
    /\ ret = Ok("new", <<>>)
    /\ outputs = {}

Idle == pending = <<>> /\ caller = "driver"

\* Encoder::new(): a fresh instance replaces the one the application held.
Encoder_new ==
    /\ Idle
    /\ state' = "Empty"
    /\ max_depth' = DEFAULT_MAX_DEPTH
    /\ depth' = 0
    /\ output' = <<>>
    /\ error' = "none"
    /\ ret' = Ok("new", <<>>)
    /\ UNCHANGED <<ty, value, pending, caller, outputs>>

\* Encoder::with_max_depth(n), in the builder chain before any emission.
with_max_depth(n) ==
    /\ Idle
    /\ state = "Empty"
    /\ max_depth' = n
    /\ ret' = Ok("with_max_depth", <<>>)
    /\ UNCHANGED <<ty, value, state, depth, output, error, pending, caller, outputs>>

\* Faulty variant: a later call starts a new emission on the same instance.
Encoder_emit_again ==
    /\ Idle
    /\ state # "Finalized"
    /\ state' = "Emitting"
    /\ pending' = <<emit(value)>>
    /\ ret' = Running("emit")
    /\ UNCHANGED <<ty, value, max_depth, depth, output, error, caller, outputs>>

\* Encoder::emit(value) / emit_with: the top-level emission.  The first call on
\* an instance starts it; any later call on the instance fails.
Encoder_emit ==
    /\ Idle
    /\ state # "Finalized"
    /\ IF state = "Empty"
       THEN /\ state' = "Emitting"
            /\ pending' = <<emit(value)>>
            /\ ret' = Running("emit")
       ELSE /\ ret' = Err("emit", "AlreadyEmitted")
            /\ UNCHANGED <<state, pending>>
    /\ UNCHANGED <<ty, value, max_depth, depth, output, error, caller, outputs>>

\* What the call that started the emission returns when it ends.
Returned(e) ==
    IF caller = "driver"
    THEN (IF e = "none" THEN Ok("emit", <<>>) ELSE Err("emit", e))
    ELSE ret

\* SingleItemEncoder::emit_str / emit_bytes / emit_int: one token.
emit_token(token) ==
    /\ output' = output \o token
    /\ pending' = Tail(pending)
    /\ ret' = IF Tail(pending) = <<>> THEN Returned("none") ELSE ret
    /\ UNCHANGED <<depth, error>>

\* SingleItemEncoder::emit_list / emit_dict: the depth check, the opening
\* byte, then the body, then the closing of the container.
emit_container(open, body) ==
    IF depth + 1 > max_depth
    THEN /\ error' = "DepthLimitExceeded"
         /\ pending' = <<>>
         /\ ret' = Returned("DepthLimitExceeded")
         /\ UNCHANGED <<depth, output>>
    ELSE /\ depth' = depth + 1
         /\ output' = output \o open
         /\ pending' = body \o <<close>> \o Tail(pending)
         /\ UNCHANGED <<error, ret>>

\* Faulty variant: the body is closed without decrementing the counter.
emit_close_no_decrement ==
    /\ output' = output \o <<101>>
    /\ pending' = Tail(pending)
    /\ ret' = IF Tail(pending) = <<>> THEN Returned("none") ELSE ret
    /\ UNCHANGED <<depth, error>>

\* The end of a list or dict body.
emit_close ==
    /\ depth' = depth - 1
    /\ output' = output \o <<101>>
    /\ pending' = Tail(pending)
    /\ ret' = IF Tail(pending) = <<>> THEN Returned("none") ELSE ret
    /\ UNCHANGED error

\* One step of the running emission: the next thing the call tree does.
Step ==
    /\ pending # <<>>
    /\ LET head == Head(pending) IN
       CASE head.op = "close" -> emit_close
         [] head.op = "emit_pair" ->
                /\ output' = output \o ByteStringToken(head.k)
                /\ pending' = <<emit(head.v)>> \o Tail(pending)
                /\ UNCHANGED <<depth, error, ret>>
         [] head.op = "emit" ->
                \E iter \in IterOrders(head.v) :
                    LET c == encode(head.v, iter) IN
                    CASE c.call \in {"emit_str", "emit_bytes"} ->
                             emit_token(ByteStringToken(c.b))
                      [] c.call = "emit_int" -> emit_token(IntegerToken(c.n))
                      [] c.call = "emit_list" -> emit_container(<<108>>, c.body)
                      [] c.call = "emit_dict" -> emit_container(<<100>>, c.body)
    /\ UNCHANGED <<ty, value, state, max_depth, caller, outputs>>

\* Encoder::get_output
get_output ==
    /\ Idle
    /\ state # "Finalized"
    /\ IF state = "Empty"
       THEN /\ ret' = Err("get_output", "NotYetEmitted")
            /\ UNCHANGED <<state, outputs>>
       ELSE /\ state' = "Finalized"
            /\ IF error = "none"
               THEN ret' = Ok("get_output", output) /\ outputs' = outputs \cup {output}
               ELSE ret' = Err("get_output", error) /\ UNCHANGED outputs
    /\ UNCHANGED <<ty, value, max_depth, depth, output, error, pending, caller>>

\* Encodable::to_bytes, up to the call of emit_with:
\* Encoder::new().with_max_depth(Self::MAX_DEPTH), then the emission.
to_bytes_ceiling(T) == MAX_DEPTH(T)

to_bytes ==
    /\ Idle
    /\ state' = "Emitting"
    /\ max_depth' = to_bytes_ceiling(ty)
    /\ depth' = 0
    /\ output' = <<>>
    /\ error' = "none"
    /\ pending' = <<emit(value)>>
    /\ caller' = "to_bytes"
    /\ ret' = Running("to_bytes")
    /\ UNCHANGED <<ty, value, outputs>>

\* Encodable::to_bytes, from the return of emit_with: `?` returns the error,
\* otherwise the bytes of get_output.
to_bytes_result(e, bytes) ==
    IF e # "none" THEN Err("to_bytes", e) ELSE Ok("to_bytes", bytes)

to_bytes_return ==
    /\ caller = "to_bytes"
    /\ pending = <<>>
    /\ ret' = to_bytes_result(error, output)
    /\ outputs' = IF ret'.ok THEN outputs \cup {ret'.bytes} ELSE outputs
    /\ state' = "Finalized"
    /\ caller' = "driver"
    /\ UNCHANGED <<ty, value, max_depth, depth, output, error, pending>>

Next ==
    \/ Encoder_new
    \/ \E n \in 0..MaxCeiling : with_max_depth(n)
    \/ Encoder_emit
    \/ Step
    \/ get_output
    \/ to_bytes
    \/ to_bytes_return

Spec == Init /\ [][Next]_vars

\* ----------------------------------------------------------------- claims

\* The key bytes of the emit_pair items of a dict body, in emission order.
KeysOf(body) == [i \in 1..Len(body) |-> body[i].k]

StrictlyAscending(ks) == \A i \in 1..(Len(ks) - 1) : LexLess(ks[i], ks[i + 1])
Ascending(ks) == \A i \in 1..(Len(ks) - 1) : LexLeq(ks[i], ks[i + 1])

\* The step encodes a map of the given kind: its dict is opened and the pairs
\* of its body are now the first items of pending.
OpensDict(kind) ==
    /\ pending # <<>>
    /\ Head(pending).op = "emit"
    /\ Forwarded(Head(pending).v).t = kind
    /\ depth' = depth + 1

OpenedBody == SubSeq(pending', 1, Len(pending') - Len(pending))

\* C1: whenever a HashMap is encoded, whatever its key set and its iteration
\* order, the pairs are emitted with strictly ascending key bytes: a < b for
\* any two consecutive emitted keys a, b.
C1_HashMapKeysStrictlyAscending ==
    [][OpensDict("hash") => StrictlyAscending(KeysOf(OpenedBody))]_vars

\* C2: whenever a BTreeMap is encoded, the pairs, emitted in the map's own
\* iteration order, have key bytes in ascending byte-lexicographic order.
C2_BTreeMapKeysAscending ==
    [][OpensDict("btree") => Ascending(KeysOf(OpenedBody))]_vars

\* The keys of the value's maps are plain byte strings (String, Vec<u8>):
\* as_ref shows the whole key, and K's order is the order of the bytes.
RECURSIVE PlainKeys(_)
PlainKeys(v) == \A i \in 1..Len(v.kids) : v.kids[i].k.id = 0 /\ PlainKeys(v.kids[i].v)

\* With plain byte-string keys a HashMap's pairs are emitted strictly
\* ascending, a BTreeMap's pairs too, and the encoding is deterministic.
PlainKeys_HashMapStrictlyAscending ==
    [][(PlainKeys(value) /\ OpensDict("hash")) => StrictlyAscending(KeysOf(OpenedBody))]_vars
PlainKeys_BTreeMapStrictlyAscending ==
    [][(PlainKeys(value) /\ OpensDict("btree")) => StrictlyAscending(KeysOf(OpenedBody))]_vars
PlainKeys_Deterministic == PlainKeys(value) => Cardinality(outputs) <= 1
\* With any keys a HashMap's pairs are emitted in non-descending order.
AnyKeys_HashMapAscending ==
    [][OpensDict("hash") => Ascending(KeysOf(OpenedBody))]_vars

\* C3: all the encodings returned for one value are the same byte string,
\* whatever order its HashMaps iterated in.
C3_Deterministic == Cardinality(outputs) <= 1

\* The container nesting of a value: a leaf has none, a list or dict has one
\* level more than its deepest element, a forwarding wrapper adds nothing.
RECURSIVE Nesting(_)
RECURSIVE NestingOfKids(_)
Nesting(v) ==
    CASE v.t \in LeafTypes -> 0
      [] v.t \in Forwarding -> Nesting(v.kids[1].v)
      [] v.t = "Foo" -> 1 + NestingOfKids(SubSeq(v.kids, 1, 2))
      [] OTHER -> 1 + NestingOfKids(v.kids)
NestingOfKids(kids) ==
    IF kids = <<>> THEN 0
    ELSE LET h == Nesting(Head(kids).v)
             r == NestingOfKids(Tail(kids))
         IN IF h > r THEN h ELSE r

\* The top-level emission of value on the current Encoder has ended.
Ended == pending = <<>> /\ state \in {"Emitting", "Finalized"}

\* get_output or to_bytes has returned.
Returns == ret.call \in {"get_output", "to_bytes"} /\ ret.err # "running"

\* C4: an emission of a value nested deeper than the ceiling ends with
\* DepthLimitExceeded and get_output / to_bytes return the error and no bytes;
\* an emission of a value nested at most as deep as the ceiling succeeds.
C4_DepthEnforcement ==
    Ended =>
        IF Nesting(value) > max_depth
        THEN /\ error = "DepthLimitExceeded"
             /\ Returns =>
                    ret = Err(ret.call, "DepthLimitExceeded")
             /\ ret.call = "emit" => ~ret.ok
        ELSE /\ error = "none"
             /\ Returns => ret = Ok(ret.call, output)

C4_Witness ==
    /\ ret = Err("get_output", "DepthLimitExceeded")
    /\ Nesting(value) = 2
    /\ max_depth = 1
    /\ output # <<>>

\* d3:bari5e3:bazl3:foo3:bare3:qux3:quxe
FooBytes ==
    << 100, 51, 58, 98, 97, 114, 105, 53, 101, 51, 58, 98, 97, 122, 108, 51, 58,
       102, 111, 111, 51, 58, 98, 97, 114, 101, 51, 58, 113, 117, 120, 51, 58,
       113, 117, 120, 101 >>

\* C5: Foo { bar: 5, baz: ["foo", "bar"], qux: b"qux" } emitted once on a
\* default Encoder gives exactly d3:bari5e3:bazl3:foo3:bare3:qux3:quxe.
C5_FooExample ==
    (value = FooValue /\ max_depth = DEFAULT_MAX_DEPTH /\ Ended) =>
        /\ output = FooBytes
        /\ ret.call = "get_output" => ret = Ok("get_output", FooBytes)

C5_Witness ==
    /\ value = FooValue
    /\ max_depth = DEFAULT_MAX_DEPTH
    /\ ret = Ok("get_output", FooBytes)

\* C6: once the top-level emission on an Encoder instance has ended, a further
\* emit on the instance fails and changes nothing of the Encoder, get_output
\* then returns the bytes the Encoder holds, and the instance never is Empty
\* again.
C6_SingleUse ==
    [][ /\ (Ended /\ caller = "driver" /\ ret'.call = "emit") =>
              /\ ret' = Err("emit", "AlreadyEmitted")
              /\ UNCHANGED <<state, max_depth, depth, output, error, pending>>
        /\ (Ended /\ caller = "driver" /\ ret'.call = "get_output" /\ ret'.ok) =>
              ret'.bytes = output /\ output' = output
        /\ (state # "Empty" /\ ret'.call # "new") => state' # "Empty"
      ]_vars

C6_Witness ==
    /\ ret = Err("emit", "AlreadyEmitted")
    /\ state = "Emitting"
    /\ error = "none"
    /\ output # <<>>

\* The list and dict constructors of a type.
RECURSIVE ContainerLevels(_)
ContainerLevels(T) ==
    IF T = <<>> THEN 0
    ELSE (IF T[1] \in Iterable \cup {"slice", "btree", "hash"} THEN 1 ELSE 0)
         + ContainerLevels(Tail(T))

\* C7: MAX_DEPTH counts the container levels only: for a type whose leaf is
\* text or an integer it is the number of list and dict levels of the type.
C7_MaxDepthCountsContainers ==
    ty[Len(ty)] \in {"str", "int"} => MAX_DEPTH(ty) = ContainerLevels(ty)

\* The list of integer tokens the sequence impl gives a byte buffer.
RECURSIVE IntegerTokens(_)
IntegerTokens(b) ==
    IF b = <<>> THEN <<>> ELSE IntegerToken(Head(b)) \o IntegerTokens(Tail(b))

BufferOf(v) == [i \in 1..Len(v.kids) |-> v.kids[i].v.n]

\* C8: AsString(b) is emitted as the one byte string <len(b)>:<b> and no list
\* is ever opened for it; the same buffer as a Vec of integers is emitted as
\* the list of its integer tokens, which is another byte sequence.
C8_WrapperDisambiguation ==
    /\ ty = <<"asstring">> =>
          /\ depth = 0
          /\ error = "none"
          /\ Ended => output = ByteStringToken(value.b)
    /\ (ty = <<"vec", "int">> /\ Ended /\ error = "none") =>
          /\ output = <<108>> \o IntegerTokens(BufferOf(value)) \o <<101>>
          /\ output # ByteStringToken(BufferOf(value))

C8_Witness ==
    /\ ty = <<"asstring">>
    /\ value.b = <<113, 117, 120>>
    /\ ret = Ok("get_output", <<51, 58, 113, 117, 120>>)

\* C9: for a type built from the builtin impls the depth counter never
\* exceeds the declared MAX_DEPTH, which is at least the nesting of every
\* instance, and to_bytes never ends with DepthLimitExceeded.
C9_MaxDepthBoundsNesting ==
    ty # <<"Foo">> =>
        /\ depth <= MAX_DEPTH(ty)
        /\ Nesting(value) <= MAX_DEPTH(ty)
        /\ (caller = "to_bytes" \/ ret.call = "to_bytes") =>
              error = "none" /\ ret.err # "DepthLimitExceeded"

C9_Witness ==
    /\ ty = <<"vec", "vec", "str">>
    /\ ret.call = "to_bytes"
    /\ ret.ok
    /\ Nesting(value) = MAX_DEPTH(ty)

\* The containers the running emission has opened and not yet closed.
RECURSIVE OpenContainers(_)
OpenContainers(p) ==
    IF p = <<>> THEN 0
    ELSE (IF Head(p).op = "close" THEN 1 ELSE 0) + OpenContainers(Tail(p))

\* C10: while an emission runs the depth counter is the number of open
\* containers, it never exceeds the ceiling, and it is 0 when an emission has
\* ended successfully.
C10_DepthCounter ==
    /\ error = "none" => depth = OpenContainers(pending)
    /\ depth <= max_depth
    /\ (Ended /\ error = "none") => depth = 0

C10_Witness ==
    /\ depth = 2
    /\ max_depth = 2
    /\ OpenContainers(pending) = 2

====
